---- MODULE Spec2Model ----
(***************************************************************************)
(* Model of the synthetic-dataset generator: the record-count estimator,   *)
(* the synthesis rule table, the record synthesizer and the three          *)
(* backpressure-driven streaming encoders (csv, json, xml) together with   *)
(* the POST /api/generate handler that starts them.                        *)
(*                                                                         *)
(* Text is a sequence of tokens; the bytes on the wire are the tokens      *)
(* concatenated.  Every character the code inspects (field names, values,  *)
(* separators, line ends) is a token of its own.                           *)
(***************************************************************************)
EXTENDS Integers, Sequences, FiniteSets, TLC

VARIABLES
    request,       \* req.body of the POST, or NoRequest for a direct call
    pc,            \* control position of the session's task
    fileType,      \* which stream function runs the session
    properties,    \* the schema bound by the stream function
    recordCount,   \* the target record count bound by the stream function
    sentRecords,   \* the closure counter of the stream function
    generated,     \* number of generateRecord calls made by the session
    ok,            \* the local `ok` of the latest run of generate
    listeners,     \* 'drain' listeners registered with res.once
    needDrain,     \* the sink owes a 'drain' event (a write returned false)
    hasFlush,      \* whether the sink object has a flush method
    calls,         \* setHeader, write, flush, end and status/json calls made on
                   \* the sink, in order (res.once is counted in listeners)
    lastRecord,    \* the record returned by the latest generateRecord call
    resumed,       \* history: a 'drain' event has restarted generate
    returned       \* the value returned by a generateField call made on its own

vars == <<request, pc, fileType, properties, recordCount, sentRecords,
          generated, ok, listeners, needDrain, hasFlush, calls, lastRecord,
          resumed, returned>>

(***************************************************************************)
(* Bounds of the model.                                                    *)
(***************************************************************************)
MaxFields == 2          \* longest schema explored
MaxRecordCount == 2     \* largest target count of a direct stream call

(***************************************************************************)
(* Characters and text.                                                    *)
(***************************************************************************)
LowerLetters == <<"a","b","c","d","e","f","g","h","i","j","k","l","m",
                  "n","o","p","q","r","s","t","u","v","w","x","y","z">>
UpperLetters == <<"A","B","C","D","E","F","G","H","I","J","K","L","M",
                  "N","O","P","Q","R","S","T","U","V","W","X","Y","Z">>
Digits == <<"0","1","2","3","4","5","6","7","8","9">>

Range(f) == {f[i] : i \in DOMAIN f}

WordChars == Range(LowerLetters) \cup Range(UpperLetters) \cup Range(Digits) \cup {"_"}
WhiteSpace == {" ", "\n", "\t"}

\* String.prototype.toLowerCase, one character
LowerChar(c) ==
    IF c \in Range(UpperLetters)
    THEN LowerLetters[CHOOSE i \in DOMAIN UpperLetters : UpperLetters[i] = c]
    ELSE c

toLowerCase(s) == [i \in DOMAIN s |-> LowerChar(s[i])]

RECURSIVE Concat(_)
\* the concatenation of a sequence of texts
Concat(texts) ==
    IF texts = <<>> THEN <<>> ELSE Head(texts) \o Concat(Tail(texts))

RECURSIVE Join(_, _)
\* Array.prototype.join
Join(texts, sep) ==
    IF texts = <<>> THEN <<>>
    ELSE IF Len(texts) = 1 THEN texts[1]
    ELSE texts[1] \o sep \o Join(Tail(texts), sep)

Count(text, c) == Cardinality({i \in DOMAIN text : text[i] = c})

\* String.prototype.trim
trim(s) ==
    LET keep == {i \in DOMAIN s : s[i] \notin WhiteSpace}
    IN  IF keep = {} THEN <<>>
        ELSE LET lo == CHOOSE i \in keep : \A j \in keep : i <= j
                 hi == CHOOSE i \in keep : \A j \in keep : j <= i
             IN  SubSeq(s, lo, hi)

(***************************************************************************)
(* Field names and schemas explored.  A FieldSpec is                       *)
(* [name, type, primaryKey]; a schema is a sequence of FieldSpecs.         *)
(***************************************************************************)
N_x == <<"x">>
N_n == <<"n">>
N_id == <<"i","d">>
N_name == <<"n","a","m","e">>
N_proto == <<"_","_","p","r","o","t","o","_","_">>
N_nl == <<"a","\n","b">>

validTypes == {"string", "number", "boolean", "date", "email", "phone", "address", "uuid"}

\* the fields schemas are built from (primaryKey is set by Schemas)
FieldPool ==
    { [name |-> N_x, type |-> "email"],
      [name |-> N_n, type |-> "number"],
      [name |-> N_id, type |-> "uuid"],
      [name |-> N_name, type |-> "string"],
      [name |-> N_proto, type |-> "string"],
      [name |-> N_nl, type |-> "string"] }

Field(f, isKey) == [name |-> f.name, type |-> f.type, primaryKey |-> isKey]

\* the schemas of 1..MaxFields fields with exactly one primary key
Schemas ==
    UNION { { [i \in 1..n |-> Field(fs[i], i = k)] : fs \in [1..n -> FieldPool], k \in 1..n }
            : n \in 1..MaxFields }

(***************************************************************************)
(* Synthesis rule table: generateField.                                    *)
(***************************************************************************)
IsWordAt(s, k) == k \in DOMAIN s /\ s[k] \in WordChars

\* the regex assertion \b at the gap before position p
WordBoundary(s, p) == IsWordAt(s, p - 1) # IsWordAt(s, p)

\* RegExp.prototype.test for a literal word, with \b after it and, when
\* `lead`, \b before it
TestWord(s, w, lead) ==
    \E i \in 1..(Len(s) - Len(w) + 1) :
        /\ SubSeq(s, i, i + Len(w) - 1) = w
        /\ lead => WordBoundary(s, i)
        /\ WordBoundary(s, i + Len(w))

\* the name patterns in the order the if-chain tests them
NamePatterns ==
    << [words |-> {<<"n","a","m","e">>}, lead |-> TRUE, gen |-> "faker.person.fullName"],
       [words |-> {<<"e","m","a","i","l">>}, lead |-> TRUE, gen |-> "faker.internet.email"],
       [words |-> {<<"e","d","u","c","a","t","i","o","n">>}, lead |-> FALSE,
        gen |-> "getRandomEducationLevel"],
       [words |-> {<<"p","h","o","n","e">>, <<"c","o","n","t","a","c","t">>}, lead |-> TRUE,
        gen |-> "faker.phone.number"],
       [words |-> {<<"g","e","n","d","e","r">>}, lead |-> TRUE, gen |-> "faker.person.sexType"],
       [words |-> {<<"c","i","t","y">>}, lead |-> TRUE, gen |-> "faker.location.city"],
       [words |-> {<<"s","t","a","t","e">>}, lead |-> TRUE, gen |-> "faker.location.state"],
       [words |-> {<<"a","d","d","r","e","s","s">>}, lead |-> TRUE,
        gen |-> "faker.location.streetAddress"],
       [words |-> {<<"c","o","u","n","t","r","y">>}, lead |-> TRUE, gen |-> "faker.location.country"],
       [words |-> {<<"z","i","p">>, <<"p","o","s","t","a","l">>}, lead |-> TRUE,
        gen |-> "faker.location.zipCode"],
       [words |-> {<<"c","o","m","p","a","n","y">>}, lead |-> TRUE, gen |-> "faker.company.name"],
       [words |-> {<<"d","a","t","e">>, <<"d","o","b">>}, lead |-> TRUE, gen |-> "faker.date.birthdate"],
       [words |-> {<<"i","d">>, <<"u","u","i","d">>}, lead |-> TRUE, gen |-> "faker.string.uuid"],
       [words |-> {<<"s","a","l","a","r","y">>, <<"i","n","c","o","m","e">>}, lead |-> TRUE,
        gen |-> "faker.finance.amount"],
       [words |-> {<<"a","g","e">>}, lead |-> TRUE, gen |-> "faker.number.int"],
       [words |-> {<<"d","e","s","c","r","i","p","t","i","o","n">>, <<"b","i","o">>}, lead |-> TRUE,
        gen |-> "faker.lorem.sentences"],
       [words |-> {<<"u","r","l">>, <<"w","e","b","s","i","t","e">>}, lead |-> TRUE,
        gen |-> "faker.internet.url"],
       [words |-> {<<"i","m","a","g","e">>, <<"a","v","a","t","a","r">>}, lead |-> TRUE,
        gen |-> "faker.image.avatar"] >>

PatternMatches(pat, s) == \E w \in pat.words : TestWord(s, w, pat.lead)

\* the switch on prop.type of the final else branch
TypeRule(type) ==
    CASE type = "string"  -> "faker.lorem.word"
      [] type = "number"  -> "faker.datatype.number"
      [] type = "boolean" -> "faker.datatype.boolean"
      [] type = "date"    -> "faker.date.past.toISOString"
      [] type = "address" -> "faker.location.streetAddress"
      [] type = "uuid"    -> "faker.string.uuid"
      [] OTHER            -> "emptyString"

\* the generator generateField returns the value of
FieldRule(prop) ==
    LET propNameLower == toLowerCase(prop.name)
        hits == {i \in DOMAIN NamePatterns : PatternMatches(NamePatterns[i], propNameLower)}
    IN  IF hits # {}
        THEN NamePatterns[CHOOSE i \in hits : \A j \in hits : i <= j].gen
        ELSE TypeRule(prop.type)

(***************************************************************************)
(* Values.  A value is [kind, gen, text]: its typeof, the generator that   *)
(* made it and String(value).  The generators are library calls; each is   *)
(* given a few sample results, those of the free-text generators covering  *)
(* the characters the csv encoder looks for.                               *)
(***************************************************************************)
FreeTextGens ==
    {"faker.person.fullName", "faker.company.name", "faker.lorem.sentences",
     "faker.location.city", "faker.location.state", "faker.location.country",
     "faker.location.streetAddress"}

FreeText == { <<"a">>, <<"a", ",", "b">>, <<"a", "\"", "b">>, <<"a", "\n", "b">> }

UuidText == <<"3f2504e0-4f89-41d3-9a0c-0305e82c3301">>

Value(kind, gen, text) == [kind |-> kind, gen |-> gen, text |-> text]

\* no call made yet
NoValue == Value("none", "none", <<>>)

\* the values a generator can return
Samples(gen) ==
    CASE gen \in FreeTextGens ->
            {Value("string", gen, t) : t \in FreeText}
      [] gen = "faker.internet.email" -> {Value("string", gen, <<"ann", "@", "example.com">>)}
      [] gen = "getRandomEducationLevel" ->
            {Value("string", gen, <<"High School">>), Value("string", gen, <<"Ph D">>)}
      [] gen = "faker.phone.number" -> {Value("string", gen, <<"555-0100">>)}
      [] gen = "faker.person.sexType" -> {Value("string", gen, <<"female">>)}
      [] gen = "faker.location.zipCode" -> {Value("string", gen, <<"12345">>)}
      [] gen = "faker.date.birthdate" ->
            {Value("object", gen, <<"Mon Jan 01 1990 00:00:00 GMT+0000 (Coordinated Universal Time)">>)}
      [] gen = "faker.string.uuid" -> {Value("string", gen, UuidText)}
      [] gen = "uuidv4" -> {Value("string", gen, UuidText)}
      [] gen = "faker.finance.amount" -> {Value("string", gen, <<"$", "30000.00">>)}
      [] gen = "faker.number.int" -> {Value("number", gen, <<"1", "8">>)}
      [] gen = "faker.internet.url" -> {Value("string", gen, <<"https://example.com">>)}
      [] gen = "faker.image.avatar" -> {Value("string", gen, <<"https://example.com/a.png">>)}
      [] gen = "faker.lorem.word" -> {Value("string", gen, <<"lorem">>)}
      [] gen = "faker.datatype.number" -> {Value("number", gen, <<"7">>)}
      [] gen = "faker.datatype.number.min10" ->
            {Value("number", gen, <<"1", "0">>),
             Value("number", gen, <<"1","0","0","0","0","0","0","0","0","0",
                                     "0","0","0","0","0","0","0","0","0">>)}
      [] gen = "faker.datatype.boolean" ->
            {Value("boolean", gen, <<"true">>), Value("boolean", gen, <<"false">>)}
      [] gen = "faker.date.past.toISOString" ->
            {Value("string", gen, <<"2024-01-01T00:00:00.000Z">>)}
      [] OTHER -> {Value("string", "emptyString", <<>>)}

generateField(prop) == Samples(FieldRule(prop))

(***************************************************************************)
(* Record synthesizer: generateRecord.  A record is the sequence of its    *)
(* own properties [key, value] in insertion order.                         *)
(***************************************************************************)
HasKey(record, key) == \E i \in DOMAIN record : record[i].key = key

Keys(record) == {record[i].key : i \in DOMAIN record}

\* record[key] = value on an object literal: "__proto__" names the
\* prototype accessor, which ignores a primitive and creates no property
RecordSet(record, key, value) ==
    IF key = N_proto THEN record
    ELSE IF HasKey(record, key)
    THEN [i \in DOMAIN record |->
            IF record[i].key = key THEN [key |-> key, value |-> value] ELSE record[i]]
    ELSE Append(record, [key |-> key, value |-> value])

\* record[key]: an own property, else what the prototype chain gives
RecordGet(record, key) ==
    IF HasKey(record, key)
    THEN record[CHOOSE i \in DOMAIN record : record[i].key = key].value
    ELSE IF key = N_proto
    THEN Value("object", "Object.prototype", <<"[object Object]">>)
    ELSE Value("undefined", "undefined", <<"undefined">>)

RECURSIVE FillFields(_, _, _)
\* properties.forEach(prop => record[prop.name] = generateField(prop)),
\* from field i on: the records it can leave
FillFields(props, i, record) ==
    IF i > Len(props) THEN {record}
    ELSE UNION { FillFields(props, i + 1, RecordSet(record, props[i].name, v))
                 : v \in generateField(props[i]) }

\* what the primary-key branch assigns, by declared type
PrimaryKeyRule(type) ==
    IF type = "number" THEN "faker.datatype.number.min10"
    ELSE IF type = "uuid" \/ type = "string" THEN "uuidv4"
    ELSE "none"

\* the records generateRecord(properties) can return
generateRecord(props) ==
    LET filled == FillFields(props, 1, <<>>)
        keyed == {i \in DOMAIN props : props[i].primaryKey}
    IN  IF keyed = {} THEN filled
        ELSE LET primaryKeyProp == props[CHOOSE i \in keyed : \A j \in keyed : i <= j]
                 rule == PrimaryKeyRule(primaryKeyProp.type)
             IN  IF rule = "none" THEN filled
                 ELSE { RecordSet(r, primaryKeyProp.name, v) : r \in filled, v \in Samples(rule) }

(***************************************************************************)
(* Record-count estimator.                                                 *)
(***************************************************************************)
maxFileSizeMB == 1000

\* mutant: a megabyte taken as 1000 * 1000 bytes
estimateRecordCount_Decimal(fileSizeMB, averageRecordSize) ==
    (fileSizeMB * 1000 * 1000) \div averageRecordSize

\* Math.floor(fileSizeMB * 1024 * 1024 / averageRecordSize)
estimateRecordCount(fileSizeMB, averageRecordSize) ==
    LET bytes == fileSizeMB * 1024 * 1024
    IN  bytes \div averageRecordSize

\* the first switch of the handler
averageRecordSizeOf(type) ==
    CASE type = "csv" -> 100
      [] type = "xml" -> 300
      [] OTHER -> 200

(***************************************************************************)
(* Per-record rendering of the three formats.                              *)
(***************************************************************************)
RECURSIVE ReplaceAll(_, _, _)
\* String.prototype.replace with a global one-character pattern
ReplaceAll(text, c, by) ==
    IF text = <<>> THEN <<>>
    ELSE (IF Head(text) = c THEN by ELSE <<Head(text)>>) \o ReplaceAll(Tail(text), c, by)

\* the map callback of streamCSV: one field of the line
csvField(value) ==
    IF value.kind = "string"
    THEN LET escaped == ReplaceAll(value.text, "\"", <<"\"", "\"">>)
         IN  IF \E i \in DOMAIN escaped : escaped[i] \in {"\"", ",", "\n"}
             THEN <<"\"">> \o escaped \o <<"\"">>
             ELSE escaped
    ELSE value.text

csvLine(props, record) ==
    Join([i \in DOMAIN props |-> csvField(RecordGet(record, props[i].name))], <<",">>)
        \o <<"\n">>

csvHeaders(props) == Join([i \in DOMAIN props |-> props[i].name], <<",">>) \o <<"\n">>

\* JSON.stringify of a string: quoted, with the quote, the backslash and
\* the newline escaped
jsonString(text) ==
    <<"\"">>
    \o ReplaceAll(ReplaceAll(ReplaceAll(text, "\\", <<"\\", "\\">>), "\"", <<"\\", "\"">>),
                  "\n", <<"\\", "n">>)
    \o <<"\"">>

jsonValue(value) ==
    CASE value.kind = "string" -> jsonString(value.text)
      [] value.kind = "object" -> jsonString(<<"1990-01-01T00:00:00.000Z">>)
      [] OTHER -> value.text

\* JSON.stringify(record)
jsonStringify(record) ==
    <<"{">>
    \o Join([i \in DOMAIN record |->
                jsonString(record[i].key) \o <<":">> \o jsonValue(record[i].value)], <<",">>)
    \o <<"}">>

\* mutant: a separator after every record
jsonSeparator_Always(sent, count) == <<",">>

\* the separator streamJSON appends to record number `sent` of `count`
jsonSeparator(sent, count) == IF sent < count THEN <<",">> ELSE <<>>

xmlElement(props, record) ==
    <<"  <record>", "\n">>
    \o Concat([i \in DOMAIN props |->
                 <<"    <">> \o props[i].name \o <<">">>
                 \o RecordGet(record, props[i].name).text
                 \o <<"</">> \o props[i].name \o <<">", "\n">>])
    \o <<"  </record>", "\n">>

xmlPrologue == <<"<?xml version=\"1.0\" encoding=\"UTF-8\"?>", "\n", "<records>", "\n">>

(***************************************************************************)
(* The sink (the HTTP response `res`).  `calls` lists the calls made on    *)
(* it.  Consecutive writes of records with consecutive numbers and the     *)
(* same text are kept as one entry [from..to]; nothing else is merged, so  *)
(* the list stands for exactly one sequence of calls.                      *)
(***************************************************************************)
Call(op, part, text) ==
    [op |-> op, part |-> part, from |-> 0, to |-> 0, text |-> text]

RecordWrite(idx, text) ==
    [op |-> "write", part |-> "record", from |-> idx, to |-> idx, text |-> text]

Emit(log, c) ==
    IF /\ log # <<>>
       /\ c.part = "record"
       /\ log[Len(log)].part = "record"
       /\ log[Len(log)].to + 1 = c.from
       /\ log[Len(log)].text = c.text
    THEN [log EXCEPT ![Len(log)].to = c.to]
    ELSE Append(log, c)

RECURSIVE EmitAll(_, _)
EmitAll(log, cs) ==
    IF cs = <<>> THEN log ELSE EmitAll(Emit(log, Head(cs)), Tail(cs))

\* res.flush && res.flush()
FlushCalls(s) == IF hasFlush[s] THEN <<Call("flush", "none", <<>>)>> ELSE <<>>

\* res.write(text) returning `result`: false asks the caller to wait for 'drain'
Write(s, cs, result) ==
    /\ calls' = [calls EXCEPT ![s] = EmitAll(@, cs)]
    /\ needDrain' = [needDrain EXCEPT ![s] = @ \/ ~result]

(***************************************************************************)
(* streamCSV                                                               *)
(***************************************************************************)
streamCSV(s) ==
    /\ pc[s] = "call"
    /\ fileType[s] = "csv"
    /\ \E result \in BOOLEAN :
          Write(s, << Call("setHeader", "Content-Disposition",
                           <<"attachment; filename=\"generated_file.csv\"">>),
                      Call("setHeader", "Content-Type", <<"text/csv">>),
                      Call("write", "prologue", csvHeaders(properties[s])) >>, result)
    /\ sentRecords' = [sentRecords EXCEPT ![s] = 0]
    /\ ok' = [ok EXCEPT ![s] = TRUE]
    /\ pc' = [pc EXCEPT ![s] = "generate"]
    /\ UNCHANGED <<request, fileType, properties, recordCount, generated,
                   listeners, hasFlush, lastRecord, resumed, returned>>

\* mutant: the loop goes on after a refused write
csvLoopCond_IgnoresOk(s) == sentRecords[s] < recordCount[s]

csvLoopCond(s) == sentRecords[s] < recordCount[s] /\ ok[s]

csvFlushDue(sent) == sent % 1000 = 0

csvNotFinished(s) == sentRecords[s] < recordCount[s]

\* mutant: the counter is one variable of the module, shared by all sessions
csvGenerateLoop_SharedCounter(s) ==
    /\ pc[s] = "generate"
    /\ fileType[s] = "csv"
    /\ csvLoopCond(s)
    /\ \E record \in generateRecord(properties[s]), result \in BOOLEAN :
          /\ lastRecord' = [lastRecord EXCEPT ![s] = record]
          /\ Write(s, <<RecordWrite(generated[s] + 1, csvLine(properties[s], record))>>
                      \o (IF csvFlushDue(sentRecords[s] + 1) THEN FlushCalls(s) ELSE <<>>),
                   result)
          /\ ok' = [ok EXCEPT ![s] = result]
    /\ generated' = [generated EXCEPT ![s] = @ + 1]
    /\ sentRecords' = [t \in DOMAIN sentRecords |-> sentRecords[s] + 1]
    /\ UNCHANGED <<request, pc, fileType, properties, recordCount, listeners, hasFlush,
                   resumed, returned>>

\* one iteration of the while loop of streamCSV's generate
csvGenerateLoop(s) ==
    /\ pc[s] = "generate"
    /\ fileType[s] = "csv"
    /\ csvLoopCond(s)
    /\ \E record \in generateRecord(properties[s]), result \in BOOLEAN :
          /\ lastRecord' = [lastRecord EXCEPT ![s] = record]
          /\ Write(s, <<RecordWrite(generated[s] + 1, csvLine(properties[s], record))>>
                      \o (IF csvFlushDue(sentRecords[s] + 1) THEN FlushCalls(s) ELSE <<>>),
                   result)
          /\ ok' = [ok EXCEPT ![s] = result]
    /\ generated' = [generated EXCEPT ![s] = @ + 1]
    /\ sentRecords' = [sentRecords EXCEPT ![s] = @ + 1]
    /\ UNCHANGED <<request, pc, fileType, properties, recordCount, listeners, hasFlush,
                   resumed, returned>>

\* mutant: an unfinished run returns without registering the listener
csvGenerateExit_NoListener(s) ==
    /\ pc[s] = "generate"
    /\ fileType[s] = "csv"
    /\ ~csvLoopCond(s)
    /\ IF csvNotFinished(s)
       THEN UNCHANGED calls
       ELSE calls' = [calls EXCEPT ![s] = Emit(@, Call("end", "none", <<>>))]
    /\ pc' = [pc EXCEPT ![s] = "idle"]
    /\ UNCHANGED <<request, fileType, properties, recordCount, sentRecords, generated,
                   ok, listeners, needDrain, hasFlush, lastRecord, resumed, returned>>

\* the if after the loop: wait for 'drain', or end the response
csvGenerateExit(s) ==
    /\ pc[s] = "generate"
    /\ fileType[s] = "csv"
    /\ ~csvLoopCond(s)
    /\ IF csvNotFinished(s)
       THEN /\ listeners' = [listeners EXCEPT ![s] = @ + 1]
            /\ UNCHANGED calls
       ELSE /\ calls' = [calls EXCEPT ![s] = Emit(@, Call("end", "none", <<>>))]
            /\ UNCHANGED listeners
    /\ pc' = [pc EXCEPT ![s] = "idle"]
    /\ UNCHANGED <<request, fileType, properties, recordCount, sentRecords, generated,
                   ok, needDrain, hasFlush, lastRecord, resumed, returned>>

(***************************************************************************)
(* streamJSON                                                              *)
(***************************************************************************)
streamJSON(s) ==
    /\ pc[s] = "call"
    /\ fileType[s] = "json"
    /\ \E result \in BOOLEAN :
          Write(s, << Call("setHeader", "Content-Disposition",
                           <<"attachment; filename=\"generated_file.json\"">>),
                      Call("setHeader", "Content-Type", <<"application/json">>),
                      Call("write", "prologue", <<"[">>) >>, result)
    /\ sentRecords' = [sentRecords EXCEPT ![s] = 0]
    /\ ok' = [ok EXCEPT ![s] = TRUE]
    /\ pc' = [pc EXCEPT ![s] = "generate"]
    /\ UNCHANGED <<request, fileType, properties, recordCount, generated,
                   listeners, hasFlush, lastRecord, resumed, returned>>

jsonLoopCond(s) == sentRecords[s] < recordCount[s] /\ ok[s]

\* mutant: the json encoder never asks for a flush
jsonFlushDue_Never(sent) == FALSE

jsonFlushDue(sent) == sent % 1000 = 0

\* mutant: a refused last write also waits for 'drain'
jsonNotFinished_OrRefused(s) == sentRecords[s] < recordCount[s] \/ ~ok[s]

jsonNotFinished(s) == sentRecords[s] < recordCount[s]

jsonGenerateLoop(s) ==
    /\ pc[s] = "generate"
    /\ fileType[s] = "json"
    /\ jsonLoopCond(s)
    /\ \E record \in generateRecord(properties[s]), result \in BOOLEAN :
          /\ lastRecord' = [lastRecord EXCEPT ![s] = record]
          /\ Write(s, <<RecordWrite(generated[s] + 1,
                                    jsonStringify(record)
                                    \o jsonSeparator(sentRecords[s] + 1, recordCount[s]))>>
                      \o (IF jsonFlushDue(sentRecords[s] + 1) THEN FlushCalls(s) ELSE <<>>),
                   result)
          /\ ok' = [ok EXCEPT ![s] = result]
    /\ generated' = [generated EXCEPT ![s] = @ + 1]
    /\ sentRecords' = [sentRecords EXCEPT ![s] = @ + 1]
    /\ UNCHANGED <<request, pc, fileType, properties, recordCount, listeners, hasFlush,
                   resumed, returned>>

jsonGenerateExit(s) ==
    /\ pc[s] = "generate"
    /\ fileType[s] = "json"
    /\ ~jsonLoopCond(s)
    /\ IF jsonNotFinished(s)
       THEN /\ listeners' = [listeners EXCEPT ![s] = @ + 1]
            /\ UNCHANGED <<calls, needDrain>>
       ELSE /\ \E result \in BOOLEAN :
                  Write(s, << Call("write", "epilogue", <<"]">>),
                              Call("end", "none", <<>>) >>, result)
            /\ UNCHANGED listeners
    /\ pc' = [pc EXCEPT ![s] = "idle"]
    /\ UNCHANGED <<request, fileType, properties, recordCount, sentRecords, generated,
                   ok, hasFlush, lastRecord, resumed, returned>>

(***************************************************************************)
(* streamXML                                                               *)
(***************************************************************************)
streamXML(s) ==
    /\ pc[s] = "call"
    /\ fileType[s] = "xml"
    /\ \E result \in BOOLEAN :
          Write(s, << Call("setHeader", "Content-Disposition",
                           <<"attachment; filename=\"generated_file.xml\"">>),
                      Call("setHeader", "Content-Type", <<"application/xml">>),
                      Call("write", "prologue", xmlPrologue) >>, result)
    /\ sentRecords' = [sentRecords EXCEPT ![s] = 0]
    /\ ok' = [ok EXCEPT ![s] = TRUE]
    /\ pc' = [pc EXCEPT ![s] = "generate"]
    /\ UNCHANGED <<request, fileType, properties, recordCount, generated,
                   listeners, hasFlush, lastRecord, resumed, returned>>

xmlLoopCond(s) == sentRecords[s] < recordCount[s] /\ ok[s]

\* mutant: a flush every 100 records
xmlFlushDue_Every100(sent) == sent % 100 = 0

xmlFlushDue(sent) == sent % 1000 = 0

\* mutant: the response is ended with one record still to write
xmlNotFinished_OffByOne(s) == sentRecords[s] + 1 < recordCount[s]

xmlNotFinished(s) == sentRecords[s] < recordCount[s]

xmlGenerateLoop(s) ==
    /\ pc[s] = "generate"
    /\ fileType[s] = "xml"
    /\ xmlLoopCond(s)
    /\ \E record \in generateRecord(properties[s]), result \in BOOLEAN :
          /\ lastRecord' = [lastRecord EXCEPT ![s] = record]
          /\ Write(s, <<RecordWrite(generated[s] + 1, xmlElement(properties[s], record))>>
                      \o (IF xmlFlushDue(sentRecords[s] + 1) THEN FlushCalls(s) ELSE <<>>),
                   result)
          /\ ok' = [ok EXCEPT ![s] = result]
    /\ generated' = [generated EXCEPT ![s] = @ + 1]
    /\ sentRecords' = [sentRecords EXCEPT ![s] = @ + 1]
    /\ UNCHANGED <<request, pc, fileType, properties, recordCount, listeners, hasFlush,
                   resumed, returned>>

xmlGenerateExit(s) ==
    /\ pc[s] = "generate"
    /\ fileType[s] = "xml"
    /\ ~xmlLoopCond(s)
    /\ IF xmlNotFinished(s)
       THEN /\ listeners' = [listeners EXCEPT ![s] = @ + 1]
            /\ UNCHANGED <<calls, needDrain>>
       ELSE /\ \E result \in BOOLEAN :
                  Write(s, << Call("write", "epilogue", <<"</records>">>),
                              Call("end", "none", <<>>) >>, result)
            /\ UNCHANGED listeners
    /\ pc' = [pc EXCEPT ![s] = "idle"]
    /\ UNCHANGED <<request, fileType, properties, recordCount, sentRecords, generated,
                   ok, hasFlush, lastRecord, resumed, returned>>

(***************************************************************************)
(* The sink's 'drain' event.  It is emitted only when a write returned     *)
(* false and only between tasks (the session's task is not running); a     *)
(* listener registered with once is removed and then called, which starts  *)
(* a new run of generate with its own `ok = true`.                         *)
(***************************************************************************)
\* mutant: a timer, not the sink's event, restarts a parked session
Drain_OnTimer(s) ==
    /\ pc[s] = "idle"
    /\ listeners[s] > 0
    /\ listeners' = [listeners EXCEPT ![s] = @ - 1]
    /\ ok' = [ok EXCEPT ![s] = TRUE]
    /\ pc' = [pc EXCEPT ![s] = "generate"]
    /\ resumed' = [resumed EXCEPT ![s] = TRUE]
    /\ UNCHANGED <<request, fileType, properties, recordCount, sentRecords, generated,
                   needDrain, hasFlush, calls, lastRecord, returned>>

\* mutant: the listener is registered with res.on and stays when it fires
Drain_ListenerStays(s) ==
    /\ pc[s] = "idle"
    /\ needDrain[s]
    /\ needDrain' = [needDrain EXCEPT ![s] = FALSE]
    /\ IF listeners[s] > 0
       THEN /\ ok' = [ok EXCEPT ![s] = TRUE]
            /\ pc' = [pc EXCEPT ![s] = "generate"]
            /\ resumed' = [resumed EXCEPT ![s] = TRUE]
            /\ UNCHANGED listeners
       ELSE UNCHANGED <<listeners, ok, pc, resumed>>
    /\ UNCHANGED <<request, fileType, properties, recordCount, sentRecords, generated,
                   hasFlush, calls, lastRecord, returned>>

\* mutant: every 'drain' calls generate, registered or not
Drain_AlwaysRestarts(s) ==
    /\ pc[s] = "idle"
    /\ needDrain[s]
    /\ needDrain' = [needDrain EXCEPT ![s] = FALSE]
    /\ listeners' = [listeners EXCEPT ![s] = IF @ > 0 THEN @ - 1 ELSE 0]
    /\ ok' = [ok EXCEPT ![s] = TRUE]
    /\ pc' = [pc EXCEPT ![s] = "generate"]
    /\ resumed' = [resumed EXCEPT ![s] = TRUE]
    /\ UNCHANGED <<request, fileType, properties, recordCount, sentRecords, generated,
                   hasFlush, calls, lastRecord, returned>>

Drain(s) ==
    /\ pc[s] = "idle"
    /\ needDrain[s]
    /\ needDrain' = [needDrain EXCEPT ![s] = FALSE]
    /\ IF listeners[s] > 0
       THEN /\ listeners' = [listeners EXCEPT ![s] = @ - 1]
            /\ ok' = [ok EXCEPT ![s] = TRUE]
            /\ pc' = [pc EXCEPT ![s] = "generate"]
            /\ resumed' = [resumed EXCEPT ![s] = TRUE]
       ELSE UNCHANGED <<listeners, ok, pc, resumed>>
    /\ UNCHANGED <<request, fileType, properties, recordCount, sentRecords, generated,
                   hasFlush, calls, lastRecord, returned>>

(***************************************************************************)
(* POST /api/generate.  A request body is [fileType, fileSize, properties] *)
(* with fileSize = [type, nan, num] (its typeof, whether it is NaN, its    *)
(* value) and properties = [isArray, items].                               *)
(***************************************************************************)
NoRequest == [fileType |-> "none"]

Num(n) == [type |-> "number", nan |-> FALSE, num |-> n]

Arr(items) == [isArray |-> TRUE, items |-> items]

\* a null element of the properties array
Null == [isNull |-> TRUE]

\* mutant: the check for a second primary key is left out
ValidationError_NoSecondKeyCheck(body) ==
    LET props == body.properties.items
        primaryKeys == {i \in DOMAIN props : props[i].primaryKey}
    IN  IF body.fileType \notin {"json", "csv", "xml"}
        THEN "Invalid fileType. Allowed types: json, csv, xml."
        ELSE IF \/ body.fileSize.type # "number"
                \/ body.fileSize.nan
                \/ body.fileSize.num < 1
                \/ body.fileSize.num > maxFileSizeMB
        THEN "fileSize must be a number between 1 and 1000 MB."
        ELSE IF ~body.properties.isArray \/ Len(props) = 0
        THEN "properties must be a non-empty array."
        ELSE IF \E i \in DOMAIN props : props[i] = Null
        THEN "TypeError"
        ELSE IF Cardinality(primaryKeys) = 0
        THEN "At least one property must be marked as primaryKey."
        ELSE IF \E i \in DOMAIN props :
                    trim(props[i].name) = <<>> \/ props[i].type \notin validTypes
        THEN "Each property must have a valid 'name' (non-empty string) and 'type'."
        ELSE "none"

\* the validation chain: the error message of the first check that fails,
\* or "TypeError" when reading prop.primaryKey of a null element throws
ValidationError(body) ==
    LET props == body.properties.items
        primaryKeys == {i \in DOMAIN props : props[i].primaryKey}
    IN  IF body.fileType \notin {"json", "csv", "xml"}
        THEN "Invalid fileType. Allowed types: json, csv, xml."
        ELSE IF \/ body.fileSize.type # "number"
                \/ body.fileSize.nan
                \/ body.fileSize.num < 1
                \/ body.fileSize.num > maxFileSizeMB
        THEN "fileSize must be a number between 1 and 1000 MB."
        ELSE IF ~body.properties.isArray \/ Len(props) = 0
        THEN "properties must be a non-empty array."
        ELSE IF \E i \in DOMAIN props : props[i] = Null
        THEN "TypeError"
        ELSE IF Cardinality(primaryKeys) > 1
        THEN "Only one property can be marked as primaryKey."
        ELSE IF Cardinality(primaryKeys) = 0
        THEN "At least one property must be marked as primaryKey."
        ELSE IF \E i \in DOMAIN props :
                    trim(props[i].name) = <<>> \/ props[i].type \notin validTypes
        THEN "Each property must have a valid 'name' (non-empty string) and 'type'."
        ELSE "none"

\* the catch block: res.status(500).json({ error: 'Internal Server Error.' })
InternalServerError ==
    << Call("status", "500", <<>>), Call("json", "error", <<"Internal Server Error.">>) >>

\* the handler up to its call of the stream function
PostGenerate(s) ==
    /\ pc[s] = "request"
    /\ LET body == request[s]
           error == ValidationError(body)
       IN  IF error = "TypeError"
           THEN /\ calls' = [calls EXCEPT ![s] = EmitAll(@, InternalServerError)]
                /\ pc' = [pc EXCEPT ![s] = "responded"]
                /\ UNCHANGED <<fileType, properties, recordCount>>
           ELSE IF error # "none"
           THEN /\ calls' = [calls EXCEPT ![s] =
                      EmitAll(@, << Call("status", "400", <<>>), Call("json", "error", <<error>>) >>)]
                /\ pc' = [pc EXCEPT ![s] = "responded"]
                /\ UNCHANGED <<fileType, properties, recordCount>>
           ELSE LET averageRecordSize == averageRecordSizeOf(body.fileType)
                    estimatedRecords == estimateRecordCount(body.fileSize.num, averageRecordSize)
                IN  /\ fileType' = [fileType EXCEPT ![s] = body.fileType]
                    /\ properties' = [properties EXCEPT ![s] = body.properties.items]
                    /\ recordCount' = [recordCount EXCEPT ![s] = estimatedRecords]
                    /\ pc' = [pc EXCEPT ![s] = "call"]
                    /\ UNCHANGED calls
    /\ UNCHANGED <<request, sentRecords, generated, ok, listeners, needDrain, hasFlush,
                   lastRecord, resumed, returned>>

(***************************************************************************)
(* Inputs.                                                                 *)
(***************************************************************************)
Formats == {"csv", "json", "xml"}

\* a schema whose records are the same every time: the name matches no
\* pattern, type email has no generator and no primary-key override
PlainSchema == << [name |-> N_x, type |-> "email", primaryKey |-> TRUE] >>

Request(type, size, props) == [fileType |-> type, fileSize |-> size, properties |-> props]

ValidRequests == { Request(t, Num(1), Arr(PlainSchema)) : t \in Formats }

InvalidRequests ==
    { Request("yaml", Num(1), Arr(PlainSchema)),
      Request("csv", Num(0), Arr(PlainSchema)),
      Request("json", Num(maxFileSizeMB + 1), Arr(PlainSchema)),
      Request("xml", [type |-> "string", nan |-> FALSE, num |-> 5], Arr(PlainSchema)),
      Request("csv", [type |-> "number", nan |-> TRUE, num |-> 0], Arr(PlainSchema)),
      Request("csv", Num(1), [isArray |-> FALSE, items |-> <<>>]),
      Request("json", Num(1), Arr(<<>>)),
      Request("xml", Num(1), Arr(<< [name |-> N_x, type |-> "email", primaryKey |-> FALSE] >>)),
      Request("csv", Num(1), Arr(<< [name |-> N_x, type |-> "email", primaryKey |-> TRUE],
                                    [name |-> N_id, type |-> "uuid", primaryKey |-> TRUE] >>)),
      Request("json", Num(1), Arr(<< [name |-> <<" ">>, type |-> "string", primaryKey |-> TRUE] >>)),
      Request("xml", Num(1), Arr(<< [name |-> N_x, type |-> "integer", primaryKey |-> TRUE] >>)) }

\* requests the handler fails on before it has validated them
ThrowingRequests == { Request("json", Num(1), Arr(<<Null>>)) }

Requests == ValidRequests \cup InvalidRequests \cup ThrowingRequests

SessionIds == {1}

Fresh(v) == [s \in SessionIds |-> v]

\* a POST waiting for its handler
RequestInit(reqs) ==
    /\ request \in [SessionIds -> reqs]
    /\ pc = Fresh("request")
    /\ fileType = Fresh("none")
    /\ properties = Fresh(<<>>)
    /\ recordCount = Fresh(0)

\* a stream function about to be called on validated arguments
CallInit(schemas) ==
    /\ request = Fresh(NoRequest)
    /\ pc = Fresh("call")
    /\ fileType \in [SessionIds -> Formats]
    /\ properties \in [SessionIds -> schemas]
    /\ recordCount \in [SessionIds -> 0..MaxRecordCount]

\* the sink and the closure variables before anything has run
FreshSink ==
    /\ hasFlush \in [SessionIds -> BOOLEAN]
    /\ sentRecords = Fresh(0)
    /\ generated = Fresh(0)
    /\ ok = Fresh(TRUE)
    /\ listeners = Fresh(0)
    /\ needDrain = Fresh(FALSE)
    /\ calls = Fresh(<<>>)
    /\ lastRecord = Fresh(<<>>)
    /\ resumed = Fresh(FALSE)
    /\ returned = Fresh(NoValue)

Init == (RequestInit(Requests) \/ CallInit(Schemas)) /\ FreshSink

\* the requests of the liveness check: one valid request, and the invalid ones
LiveRequests == {Request("xml", Num(1), Arr(PlainSchema))} \cup InvalidRequests

\* the schemas of the liveness check: those of one field
LiveSchemas == {p \in Schemas : Len(p) = 1}

LiveInit == (RequestInit(LiveRequests) \/ CallInit(LiveSchemas)) /\ FreshSink

Next ==
    \/ \E s \in SessionIds : PostGenerate(s)
    \/ \E s \in SessionIds : streamCSV(s)
    \/ \E s \in SessionIds : csvGenerateLoop(s)
    \/ \E s \in SessionIds : csvGenerateExit(s)
    \/ \E s \in SessionIds : streamJSON(s)
    \/ \E s \in SessionIds : jsonGenerateLoop(s)
    \/ \E s \in SessionIds : jsonGenerateExit(s)
    \/ \E s \in SessionIds : streamXML(s)
    \/ \E s \in SessionIds : xmlGenerateLoop(s)
    \/ \E s \in SessionIds : xmlGenerateExit(s)
    \/ \E s \in SessionIds : Drain(s)

Spec == Init /\ [][Next]_vars

\* the task runs to completion and a sink that refused a write emits 'drain'
Fairness ==
    \A s \in SessionIds :
        /\ WF_vars(PostGenerate(s))
        /\ WF_vars(streamCSV(s))
        /\ WF_vars(csvGenerateLoop(s))
        /\ WF_vars(csvGenerateExit(s))
        /\ WF_vars(streamJSON(s))
        /\ WF_vars(jsonGenerateLoop(s))
        /\ WF_vars(jsonGenerateExit(s))
        /\ WF_vars(streamXML(s))
        /\ WF_vars(xmlGenerateLoop(s))
        /\ WF_vars(xmlGenerateExit(s))
        /\ WF_vars(Drain(s))

LiveSpec == LiveInit /\ [][Next]_vars /\ Fairness

(***************************************************************************)
(* The program with failures: generateRecord may throw.  An exception      *)
(* raised in the run of generate that the stream function starts unwinds   *)
(* through the stream function into the handler's try block, whose catch   *)
(* answers with status 500; one raised in a run started by 'drain', or     *)
(* under a stream function called without the handler, is caught by        *)
(* nothing in this program.                                                *)
(***************************************************************************)
LoopCondOf(s) ==
    CASE fileType[s] = "csv" -> csvLoopCond(s)
      [] fileType[s] = "json" -> jsonLoopCond(s)
      [] fileType[s] = "xml" -> xmlLoopCond(s)
      [] OTHER -> FALSE

generateRecordThrows(s) ==
    /\ pc[s] = "generate"
    /\ LoopCondOf(s)
    /\ IF request[s] # NoRequest /\ ~resumed[s]
       THEN /\ calls' = [calls EXCEPT ![s] = EmitAll(@, InternalServerError)]
            /\ pc' = [pc EXCEPT ![s] = "responded"]
       ELSE /\ pc' = [pc EXCEPT ![s] = "crashed"]
            /\ UNCHANGED calls
    /\ UNCHANGED <<request, fileType, properties, recordCount, sentRecords, generated,
                   ok, listeners, needDrain, hasFlush, lastRecord, resumed, returned>>

FailNext ==
    \/ Next
    \/ \E s \in SessionIds : generateRecordThrows(s)

FailSpec == Init /\ [][FailNext]_vars

(***************************************************************************)
(* Two sessions at once: streamCSV and streamJSON called on two sinks,     *)
(* each with its own schema and target, their generate runs and 'drain'    *)
(* callbacks interleaved in any order.                                     *)
(***************************************************************************)
PairIds == {1, 2}

PairSchema(s) ==
    IF s = 1 THEN PlainSchema
    ELSE << [name |-> N_n, type |-> "boolean", primaryKey |-> TRUE] >>

PairInit ==
    /\ request = [s \in PairIds |-> NoRequest]
    /\ pc = [s \in PairIds |-> "call"]
    /\ fileType \in [PairIds -> {"csv", "json"}]
    /\ properties = [s \in PairIds |-> PairSchema(s)]
    /\ recordCount \in [PairIds -> 0..MaxRecordCount]
    /\ hasFlush \in [PairIds -> BOOLEAN]
    /\ sentRecords = [s \in PairIds |-> 0]
    /\ generated = [s \in PairIds |-> 0]
    /\ ok = [s \in PairIds |-> TRUE]
    /\ listeners = [s \in PairIds |-> 0]
    /\ needDrain = [s \in PairIds |-> FALSE]
    /\ calls = [s \in PairIds |-> <<>>]
    /\ lastRecord = [s \in PairIds |-> <<>>]
    /\ resumed = [s \in PairIds |-> FALSE]
    /\ returned = [s \in PairIds |-> NoValue]

PairNext ==
    \/ \E s \in PairIds : streamCSV(s)
    \/ \E s \in PairIds : csvGenerateLoop(s)
    \/ \E s \in PairIds : csvGenerateExit(s)
    \/ \E s \in PairIds : streamJSON(s)
    \/ \E s \in PairIds : jsonGenerateLoop(s)
    \/ \E s \in PairIds : jsonGenerateExit(s)
    \/ \E s \in PairIds : Drain(s)

PairSpec == PairInit /\ [][PairNext]_vars

(***************************************************************************)
(* generateField and generateRecord called on their own, on one-field      *)
(* schemas over names that hit every pattern of the rule table in lower    *)
(* and upper case, inside longer words, next to punctuation and together   *)
(* with other patterns, and over the eight type tags and one other.        *)
(***************************************************************************)
RuleNames ==
    { <<"n","a","m","e">>,
      <<"E","m","a","i","l">>,
      <<"e","d","u","c","a","t","i","o","n">>,
      <<"c","o","e","d","u","c","a","t","i","o","n">>,
      <<"p","h","o","n","e">>,
      <<"c","o","n","t","a","c","t">>,
      <<"g","e","n","d","e","r">>,
      <<"c","i","t","y">>,
      <<"s","t","a","t","e">>,
      <<"a","d","d","r","e","s","s">>,
      <<"c","o","u","n","t","r","y">>,
      <<"z","i","p">>,
      <<"p","o","s","t","a","l">>,
      <<"c","o","m","p","a","n","y">>,
      <<"d","a","t","e">>,
      <<"d","o","b">>,
      <<"i","d">>,
      <<"u","u","i","d">>,
      <<"s","a","l","a","r","y">>,
      <<"i","n","c","o","m","e">>,
      <<"a","g","e">>,
      <<"d","e","s","c","r","i","p","t","i","o","n">>,
      <<"b","i","o">>,
      <<"u","r","l">>,
      <<"w","e","b","s","i","t","e">>,
      <<"i","m","a","g","e">>,
      <<"a","v","a","t","a","r">>,
      <<"x">>,
      <<"f","i","r","s","t","_","n","a","m","e">>,
      <<"u","s","e","r"," ","i","d">>,
      <<"u","s","e","r","n","a","m","e">>,
      <<"n","a","m","e"," ","e","m","a","i","l">>,
      <<"e","m","a","i","l"," ","p","h","o","n","e">>,
      <<"a","v","a","t","a","r"," ","n","a","m","e">>,
      <<"d","a","t","e"," ","i","d">>,
      <<"z","i","p","-","c","o","d","e">> }

RuleTypes == validTypes \cup {"integer"}

RuleSchemas ==
    { <<[name |-> n, type |-> t, primaryKey |-> k]>> :
          n \in RuleNames, t \in RuleTypes, k \in BOOLEAN }

RuleInit ==
    /\ request = Fresh(NoRequest)
    /\ pc = Fresh("field")
    /\ fileType = Fresh("none")
    /\ properties \in [SessionIds -> RuleSchemas]
    /\ recordCount = Fresh(0)
    /\ FreshSink

\* generateField(prop)
CallGenerateField(s) ==
    /\ pc[s] = "field"
    /\ \E v \in generateField(properties[s][1]) :
          returned' = [returned EXCEPT ![s] = v]
    /\ pc' = [pc EXCEPT ![s] = "returned"]
    /\ UNCHANGED <<request, fileType, properties, recordCount, sentRecords, generated,
                   ok, listeners, needDrain, hasFlush, calls, lastRecord, resumed>>

\* generateRecord(properties)
CallGenerateRecord(s) ==
    /\ pc[s] = "field"
    /\ \E r \in generateRecord(properties[s]) :
          lastRecord' = [lastRecord EXCEPT ![s] = r]
    /\ generated' = [generated EXCEPT ![s] = @ + 1]
    /\ pc' = [pc EXCEPT ![s] = "returned"]
    /\ UNCHANGED <<request, fileType, properties, recordCount, sentRecords,
                   ok, listeners, needDrain, hasFlush, calls, resumed, returned>>

RuleNext ==
    \/ \E s \in SessionIds : CallGenerateField(s)
    \/ \E s \in SessionIds : CallGenerateRecord(s)

RuleSpec == RuleInit /\ [][RuleNext]_vars

(***************************************************************************)
(* Observations of a session: the protocol states of the encoder and what  *)
(* the list of calls says was written.                                     *)
(***************************************************************************)
Started(s) == pc[s] \in {"generate", "idle"}

Ended(s) == \E i \in DOMAIN calls[s] : calls[s][i].op = "end"

\* parked on res.once('drain', generate)
Suspended(s) == pc[s] = "idle" /\ listeners[s] > 0

Done(s) == pc[s] = "idle" /\ Ended(s)

\* the latest record write returned false and records remain
Backpressured(s) == Started(s) /\ ~ok[s] /\ sentRecords[s] < recordCount[s]

\* this step delivers the sink's 'drain' event to session s
DrainDelivered(s) == needDrain[s] /\ ~needDrain'[s]

RecordEntries(log) == SelectSeq(log, LAMBDA c : c.part = "record")

RECURSIVE SumRecords(_)
SumRecords(entries) ==
    IF entries = <<>> THEN 0
    ELSE (Head(entries).to - Head(entries).from + 1) + SumRecords(Tail(entries))

\* number of record chunks written
NumRecords(log) == SumRecords(RecordEntries(log))

\* number of the last record chunk written (0 when none)
LastIndex(log) ==
    LET recs == RecordEntries(log)
    IN  IF recs = <<>> THEN 0 ELSE recs[Len(recs)].to

\* the record chunks are numbers 1..n, each once, in increasing order
InOrder(log, n) ==
    LET recs == RecordEntries(log)
    IN  /\ \A i \in DOMAIN recs :
              /\ recs[i].from <= recs[i].to
              /\ recs[i].from = (IF i = 1 THEN 1 ELSE recs[i - 1].to + 1)
        /\ LastIndex(log) = n

\* the writes and the close, without setHeader and flush
Wire(log) == SelectSeq(log, LAMBDA c : c.op \in {"write", "end"})

Rank(c) ==
    CASE c.op = "end" -> 3
      [] c.part = "prologue" -> 0
      [] c.part = "record" -> 1
      [] c.part = "epilogue" -> 2
      [] OTHER -> 4

\* the terminator each format is to write (none for csv)
EpilogueOf(type) ==
    CASE type = "json" -> << <<"]">> >>
      [] type = "xml" -> << <<"</records>">> >>
      [] OTHER -> <<>>

\* the texts written after the last record
Tail_(log) ==
    LET w == Wire(log)
        after == SelectSeq(w, LAMBDA c : Rank(c) >= 2)
    IN  [i \in DOMAIN after |-> IF after[i].op = "end" THEN <<"end">> ELSE after[i].text]

(***************************************************************************)
(* C1.  If the N-th record write (N below the target) returns the          *)
(* backpressure signal, no further record is synthesized or written until  *)
(* a drain signal is delivered; the drain signal restarts the loop, and    *)
(* every record written is the one numbered one above the last written,    *)
(* so none is skipped and none is written twice.                           *)
(***************************************************************************)
C1_SuspensionCorrect ==
    [][\A s \in SessionIds :
          /\ (Backpressured(s) /\ ~DrainDelivered(s)) =>
                /\ generated'[s] = generated[s]
                /\ sentRecords'[s] = sentRecords[s]
                /\ NumRecords(calls'[s]) = NumRecords(calls[s])
          /\ (Suspended(s) /\ DrainDelivered(s)) =>
                /\ pc'[s] = "generate"
                /\ ok'[s]
                /\ sentRecords'[s] = sentRecords[s]
          /\ (NumRecords(calls'[s]) # NumRecords(calls[s])) =>
                /\ NumRecords(calls'[s]) = NumRecords(calls[s]) + 1
                /\ LastIndex(calls'[s]) = LastIndex(calls[s]) + 1
                /\ generated'[s] = generated[s] + 1
                /\ sentRecords'[s] = LastIndex(calls'[s])
      ]_vars

\* a session resumed by a drain has written the record after the one whose
\* write was refused
C1_Witness ==
    \E s \in SessionIds :
        /\ resumed[s]
        /\ sentRecords[s] = 2
        /\ recordCount[s] > 2
        /\ InOrder(calls[s], 2)
        /\ NumRecords(calls[s]) = 2
        /\ Suspended(s)

(***************************************************************************)
(* C2.  In every state of a session the sink has received the prologue,    *)
(* then records 1..sentRecords in increasing order, with sentRecords at    *)
(* most the target; at DONE sentRecords is the target and the records are  *)
(* followed only by the format's epilogue and the close.                   *)
(***************************************************************************)
C2_OrderedOutput ==
    \A s \in SessionIds :
        Started(s) =>
            LET w == Wire(calls[s])
            IN  /\ w # <<>>
                /\ \A i \in DOMAIN w :
                      /\ (i = 1) <=> (Rank(w[i]) = 0)
                      /\ i > 1 => Rank(w[i - 1]) <= Rank(w[i])
                      /\ Rank(w[i]) <= 3
                /\ InOrder(calls[s], sentRecords[s])
                /\ NumRecords(calls[s]) = sentRecords[s]
                /\ sentRecords[s] <= recordCount[s]
                /\ Tail_(calls[s]) # <<>> => Done(s)
                /\ Done(s) =>
                      /\ sentRecords[s] = recordCount[s]
                      /\ Tail_(calls[s]) = EpilogueOf(fileType[s]) \o << <<"end">> >>

C2_Witness ==
    \E s \in SessionIds :
        /\ Done(s)
        /\ resumed[s]
        /\ fileType[s] = "xml"
        /\ recordCount[s] = 2
        /\ Len(RecordEntries(calls[s])) = 2

(***************************************************************************)
(* C3.  As claimed: whenever a record write returns the backpressure       *)
(* signal the session goes to SUSPENDED and makes no call on the sink      *)
(* until a drain signal is delivered, the last record included.            *)
(***************************************************************************)
C3_Original ==
    [][\A s \in SessionIds :
          (Started(s) /\ ~ok[s] /\ ~DrainDelivered(s)) =>
              /\ calls'[s] = calls[s]
              /\ pc[s] = "generate" => Suspended(s)'
      ]_vars

(***************************************************************************)
(* C3, amended.  A refused record write with records remaining parks the   *)
(* session, which makes no call on the sink until a drain signal is        *)
(* delivered; a refused write of the last record does not: the same run    *)
(* writes the epilogue and closes the sink without waiting.                *)
(***************************************************************************)
C3_SuspendsUnlessLast ==
    [][\A s \in SessionIds :
          (Started(s) /\ ~ok[s] /\ ~DrainDelivered(s)) =>
              IF sentRecords[s] < recordCount[s]
              THEN /\ calls'[s] = calls[s]
                   /\ pc[s] = "generate" => Suspended(s)'
              ELSE pc[s] = "generate" =>
                      /\ Done(s)'
                      /\ ~Suspended(s)'
                      /\ Tail_(calls'[s]) = EpilogueOf(fileType[s]) \o << <<"end">> >>
      ]_vars

\* parked after record 1, resumed, then closed right after a refused last write
C3_Witness ==
    \E s \in SessionIds :
        /\ Done(s)
        /\ ~ok[s]
        /\ resumed[s]
        /\ fileType[s] = "json"
        /\ recordCount[s] = 2

(***************************************************************************)
(* C4.  Liveness: when the task gets to run and every refused write is     *)
(* followed by a drain signal, a session whose stream function is called   *)
(* writes its epilogue, closes the sink and reaches DONE.                  *)
(***************************************************************************)
C4_EventuallyDone ==
    \A s \in SessionIds :
        (pc[s] = "call") ~>
            (Done(s) /\ Tail_(calls[s]) = EpilogueOf(fileType[s]) \o << <<"end">> >>)

C4_Witness ==
    \E s \in SessionIds :
        /\ Done(s)
        /\ resumed[s]
        /\ fileType[s] = "csv"
        /\ sentRecords[s] = 2

(***************************************************************************)
(* C5.  There is no timeout on suspension: a SUSPENDED session leaves      *)
(* that state only by a drain signal; without one it stays SUSPENDED,      *)
(* synthesizes and writes nothing, and does not close the sink.            *)
(***************************************************************************)
C5_NoTimeout ==
    [][\A s \in SessionIds :
          (Suspended(s) /\ ~DrainDelivered(s)) =>
              /\ Suspended(s)'
              /\ ~Done(s)'
              /\ calls'[s] = calls[s]
              /\ generated'[s] = generated[s]
              /\ sentRecords'[s] = sentRecords[s]
      ]_vars

C5_Witness ==
    \E s \in SessionIds :
        /\ Suspended(s)
        /\ ~Ended(s)
        /\ needDrain[s]
        /\ sentRecords[s] = 1
        /\ recordCount[s] = 2

(***************************************************************************)
(* C6.  As claimed: the number of flushes requested is the number of       *)
(* positive multiples of 1000 the emitted-record counter has reached.      *)
(***************************************************************************)
NumFlushes(log) == Cardinality({i \in DOMAIN log : log[i].op = "flush"})

C6_Original ==
    \A s \in SessionIds :
        Started(s) => NumFlushes(calls[s]) = sentRecords[s] \div 1000

(***************************************************************************)
(* C6, amended.  On a sink that has a flush method a flush is requested    *)
(* exactly when the counter becomes a positive multiple of 1000, right     *)
(* after that record's write, refused or not, so floor(T/1000) times by    *)
(* DONE; on a sink without one no flush is ever requested.                 *)
(***************************************************************************)
C6_FlushIfAvailable ==
    \A s \in SessionIds :
        Started(s) =>
            LET log == calls[s]
            IN  /\ NumFlushes(log) = (IF hasFlush[s] THEN sentRecords[s] \div 1000 ELSE 0)
                /\ \A i \in DOMAIN log :
                      log[i].op = "flush" =>
                          /\ i > 1
                          /\ log[i - 1].part = "record"
                          /\ log[i - 1].to > 0
                          /\ log[i - 1].to % 1000 = 0
                /\ Done(s) =>
                      NumFlushes(log) = (IF hasFlush[s] THEN recordCount[s] \div 1000 ELSE 0)

\* record 1000 was refused, the flush was requested all the same
C6_Witness ==
    \E s \in SessionIds :
        /\ Suspended(s)
        /\ hasFlush[s]
        /\ sentRecords[s] = 1000
        /\ NumFlushes(calls[s]) = 1
        /\ calls[s][Len(calls[s])].op = "flush"

(***************************************************************************)
(* C7.  The handler sets the target record count to                        *)
(* floor(fileSize * 1048576 / avg), avg = 100 for csv, 300 for xml, 200    *)
(* for json, for every integer fileSize in 1..1000 (10485, 5242 and 3495   *)
(* for 1 MB); it does so before anything is written to the sink, and the   *)
(* target never changes afterwards.                                        *)
(***************************************************************************)
ClaimedAverage(type) ==
    CASE type = "csv" -> 100
      [] type = "xml" -> 300
      [] type = "json" -> 200

ClaimedCount(size, type) == (size * 1048576) \div ClaimedAverage(type)

C7_TargetCount ==
    [][\A s \in SessionIds :
          /\ pc[s] # "request" => recordCount'[s] = recordCount[s]
          /\ (pc[s] = "request" /\ pc'[s] = "call") =>
                /\ recordCount'[s] =
                       ClaimedCount(request[s].fileSize.num, request[s].fileType)
                /\ calls'[s] = <<>>
                /\ \A size \in 1..1000 : \A type \in Formats :
                       estimateRecordCount(size, averageRecordSizeOf(type))
                           = ClaimedCount(size, type)
                /\ estimateRecordCount(1, averageRecordSizeOf("csv")) = 10485
                /\ estimateRecordCount(1, averageRecordSizeOf("json")) = 5242
                /\ estimateRecordCount(1, averageRecordSizeOf("xml")) = 3495
      ]_vars

\* a 1 MB csv request streamed to the end with the target it started with
C7_Witness ==
    \E s \in SessionIds :
        /\ request[s] # NoRequest
        /\ request[s].fileType = "csv"
        /\ Done(s)
        /\ recordCount[s] = 10485
        /\ sentRecords[s] = 10485

(***************************************************************************)
(* C8.  The complete json output at DONE is '[', then exactly T            *)
(* serialized records, each but the last followed by one ',', then ']':    *)
(* a well-formed array of exactly T elements, for every T >= 0 and every   *)
(* pattern of backpressure and drain signals.                              *)
(***************************************************************************)
RECURSIVE ScanObject(_, _, _, _)
\* the position of the '}' that closes the object opened at text[1],
\* skipping strings and their escapes; 0 when there is none
ScanObject(text, i, depth, inString) ==
    IF i > Len(text) THEN 0
    ELSE IF inString
    THEN IF text[i] = "\\" THEN ScanObject(text, i + 2, depth, TRUE)
         ELSE ScanObject(text, i + 1, depth, text[i] # "\"")
    ELSE IF text[i] = "\"" THEN ScanObject(text, i + 1, depth, TRUE)
    ELSE IF text[i] = "{" THEN ScanObject(text, i + 1, depth + 1, FALSE)
    ELSE IF text[i] = "}"
    THEN IF depth = 1 THEN i ELSE ScanObject(text, i + 1, depth - 1, FALSE)
    ELSE IF depth = 0 THEN 0
    ELSE ScanObject(text, i + 1, depth, FALSE)

\* what follows the one object a chunk starts with (<<"?">> when it starts
\* with none)
AfterObject(text) ==
    LET e == ScanObject(text, 1, 0, FALSE)
    IN  IF e = 0 THEN <<"?">> ELSE SubSeq(text, e + 1, Len(text))

C8_WellFormedArray ==
    \A s \in SessionIds :
        (Done(s) /\ fileType[s] = "json") =>
            LET w == Wire(calls[s])
                recs == RecordEntries(calls[s])
            IN  /\ Len(w) = Len(recs) + 3
                /\ w[1].text = <<"[">>
                /\ w[Len(w) - 1].part = "epilogue"
                /\ w[Len(w) - 1].text = <<"]">>
                /\ w[Len(w)].op = "end"
                /\ InOrder(calls[s], recordCount[s])
                /\ NumRecords(calls[s]) = recordCount[s]
                /\ \A i \in DOMAIN recs :
                      IF recs[i].to < recordCount[s]
                      THEN AfterObject(recs[i].text) = <<",">>
                      ELSE AfterObject(recs[i].text) = <<>> /\ recs[i].from = recs[i].to

C8_Witness ==
    \E s \in SessionIds :
        /\ Done(s)
        /\ fileType[s] = "json"
        /\ resumed[s]
        /\ recordCount[s] = 2
        /\ Len(RecordEntries(calls[s])) = 2

(***************************************************************************)
(* C9.  The csv output at DONE has 1 + record count lines (a line ends at  *)
(* a newline outside double quotes), for every schema whose field names    *)
(* are non-empty strings and every generated value; and a field value      *)
(* holding ',', '"' or a newline stands in its line wrapped in double      *)
(* quotes with its double quotes doubled.                                  *)
(***************************************************************************)
QuotesBefore(text, i) == Cardinality({j \in 1..(i - 1) : text[j] = "\""})

\* the line ends of text, `open` telling whether it starts inside quotes
LinesIn(text, open) ==
    Cardinality({i \in DOMAIN text :
                    /\ text[i] = "\n"
                    /\ (QuotesBefore(text, i) % 2 = 1) = open})

RECURSIVE CountLines(_, _)
\* the line ends of the writes of a call list
CountLines(writes, open) ==
    IF writes = <<>> THEN 0
    ELSE LET e == Head(writes)
             n == e.to - e.from + 1
             flips == Count(e.text, "\"") % 2 = 1
             lines == IF flips
                      THEN ((n + 1) \div 2) * LinesIn(e.text, open)
                           + (n \div 2) * LinesIn(e.text, ~open)
                      ELSE n * LinesIn(e.text, open)
             open2 == IF flips /\ n % 2 = 1 THEN ~open ELSE open
         IN  lines + CountLines(Tail(writes), open2)

CsvLines(log) == CountLines(SelectSeq(log, LAMBDA c : c.op = "write"), FALSE)

\* the claimed rendering of one value
ClaimedCsvField(value) ==
    IF \E i \in DOMAIN value.text : value.text[i] \in {",", "\"", "\n"}
    THEN <<"\"">> \o ReplaceAll(value.text, "\"", <<"\"", "\"">>) \o <<"\"">>
    ELSE value.text

C9_CsvLines ==
    \A s \in SessionIds :
        (Done(s) /\ fileType[s] = "csv") =>
            /\ CsvLines(calls[s]) = 1 + recordCount[s]
            /\ recordCount[s] > 0 =>
                  LET recs == RecordEntries(calls[s])
                      props == properties[s]
                  IN  recs[Len(recs)].text =
                          Join([i \in DOMAIN props |->
                                   ClaimedCsvField(RecordGet(lastRecord[s], props[i].name))],
                               <<",">>) \o <<"\n">>

(***************************************************************************)
(* C10.  The record generateRecord returns has exactly the schema's field  *)
(* names as its keys.                                                      *)
(***************************************************************************)
C10_KeysAreFieldNames ==
    \A s \in SessionIds :
        generated[s] > 0 =>
            Keys(lastRecord[s]) = {properties[s][i].name : i \in DOMAIN properties[s]}

(***************************************************************************)
(* C11.  In every record the value of the primary-key field follows from   *)
(* its declared type alone: number gives an integer in [10, 10^18], uuid   *)
(* or string gives a UUID-v4-shaped string, any other type leaves the      *)
(* rule-table value; every other field keeps its rule-table value.         *)
(***************************************************************************)
HexDigits == Range(Digits) \cup {"a", "b", "c", "d", "e", "f"}

\* the characters of a text (texts are kept as sequences of tokens)
Spelling(text) ==
    IF text = UuidText
    THEN <<"3","f","2","5","0","4","e","0","-",
         "4","f","8","9","-",
         "4","1","d","3","-",
         "9","a","0","c","-",
         "0","3","0","5","e","8","2","c","3","3","0","1">>
    ELSE text

IsUuidV4(text) ==
    /\ Len(text) = 36
    /\ \A i \in 1..36 :
          IF i \in {9, 14, 19, 24} THEN text[i] = "-"
          ELSE IF i = 15 THEN text[i] = "4"
          ELSE IF i = 20 THEN text[i] \in {"8", "9", "a", "b"}
          ELSE text[i] \in HexDigits

\* decimal digits of an integer n with 10 <= n <= 10^18
IsIntegerFrom10To10e18(text) ==
    /\ Len(text) \in 2..19
    /\ \A i \in DOMAIN text : text[i] \in Range(Digits)
    /\ text[1] # "0"
    /\ Len(text) = 19 => (text[1] = "1" /\ \A i \in 2..19 : text[i] = "0")

FieldValueAsClaimed(prop, v) ==
    IF prop.primaryKey /\ prop.type = "number"
    THEN v.kind = "number" /\ IsIntegerFrom10To10e18(v.text)
    ELSE IF prop.primaryKey /\ prop.type \in {"uuid", "string"}
    THEN v.kind = "string" /\ IsUuidV4(Spelling(v.text))
    ELSE v \in generateField(prop)

C11_PrimaryKeyByType ==
    \A s \in SessionIds :
        generated[s] > 0 =>
            \A i \in DOMAIN properties[s] :
                FieldValueAsClaimed(properties[s][i],
                                    RecordGet(lastRecord[s], properties[s][i].name))

(***************************************************************************)
(* C12.  generateField picks its rule from (name, type) alone: the first   *)
(* of the name patterns, in their fixed order, that matches the lowered    *)
(* name as a whole word, whatever the declared type; and the rule of the   *)
(* declared type (the empty string for a type without one) only when no    *)
(* pattern matches.                                                        *)
(***************************************************************************)
WholeWordHits(name) ==
    {i \in DOMAIN NamePatterns :
        \E w \in NamePatterns[i].words : TestWord(toLowerCase(name), w, TRUE)}

ClaimedRule(prop) ==
    IF WholeWordHits(prop.name) # {}
    THEN NamePatterns[CHOOSE i \in WholeWordHits(prop.name) :
                          \A j \in WholeWordHits(prop.name) : i <= j].gen
    ELSE IF prop.type \in {"string", "number", "boolean", "date", "address", "uuid"}
    THEN TypeRule(prop.type)
    ELSE "emptyString"

C12_RuleSelection ==
    \A s \in SessionIds :
        (pc[s] = "returned" /\ returned[s] # NoValue) =>
            returned[s].gen = ClaimedRule(properties[s][1])

(***************************************************************************)
(* C13.  A request that fails validation (fileType outside json/csv/xml,   *)
(* fileSize not a number in [1, 1000], properties empty or not an array,   *)
(* no or several primaryKey fields, a field with an empty name or a type   *)
(* outside the eight tags) is answered with an error and nothing else: no  *)
(* header, prologue, record or epilogue is written and no stream function  *)
(* is entered.  A request that passes enters exactly one stream function,  *)
(* the one of its fileType.                                                *)
(***************************************************************************)
ClaimedInvalid(body) ==
    LET items == body.properties.items
    IN  \/ body.fileType \notin {"json", "csv", "xml"}
        \/ body.fileSize.type # "number"
        \/ body.fileSize.nan
        \/ body.fileSize.num \notin 1..1000
        \/ ~body.properties.isArray
        \/ items = <<>>
        \/ Cardinality({i \in DOMAIN items : items[i] # Null /\ items[i].primaryKey}) # 1
        \/ \E i \in DOMAIN items :
              /\ items[i] # Null
              /\ trim(items[i].name) = <<>> \/ items[i].type \notin validTypes

IsErrorResponse(log) ==
    /\ Len(log) = 2
    /\ log[1].op = "status" /\ log[1].part \in {"400", "500"}
    /\ log[2].op = "json" /\ log[2].part = "error"

ContentTypeOf(type) ==
    CASE type = "csv" -> <<"text/csv">>
      [] type = "json" -> <<"application/json">>
      [] type = "xml" -> <<"application/xml">>

\* the list of calls is that of one entry into the stream function of `type`
EnteredOnly(log, type) ==
    /\ Len(log) >= 3
    /\ log[1].op = "setHeader"
    /\ log[2].op = "setHeader" /\ log[2].part = "Content-Type"
    /\ log[2].text = ContentTypeOf(type)
    /\ log[3].op = "write" /\ log[3].part = "prologue"
    /\ \A i \in 4..Len(log) : log[i].op # "setHeader" /\ log[i].part # "prologue"

C13_ValidationGate ==
    [][\A s \in SessionIds :
          /\ (pc[s] = "request" /\ pc'[s] # "request") =>
                IF ClaimedInvalid(request[s])
                THEN pc'[s] = "responded" /\ IsErrorResponse(calls'[s])
                ELSE /\ pc'[s] = "call"
                     /\ fileType'[s] = request[s].fileType
                     /\ calls'[s] = <<>>
          /\ pc[s] = "responded" => (pc'[s] = "responded" /\ calls'[s] = calls[s])
          /\ (request[s] # NoRequest /\ pc'[s] \in {"generate", "idle"}) =>
                EnteredOnly(calls'[s], request[s].fileType)
          /\ pc[s] # "request" => pc'[s] # "request"
          /\ pc[s] \notin {"request", "call"} => pc'[s] # "call"
      ]_vars

\* a request with two primary keys has been answered with status 400
C13_Witness ==
    \E s \in SessionIds :
        /\ request[s] # NoRequest
        /\ pc[s] = "responded"
        /\ request[s].properties.isArray
        /\ Len(request[s].properties.items) = 2
        /\ calls[s][1].op = "status" /\ calls[s][1].part = "400"

(***************************************************************************)
(* C14.  An internal failure is answered with an error response only when  *)
(* the response has not started: once a session has written its prologue   *)
(* or any other body chunk, no error status is set and no error body is    *)
(* sent on that sink, also when the failure is raised in the first run of  *)
(* the generate loop.                                                      *)
(***************************************************************************)
C14_NoErrorAfterStart ==
    \A s \in SessionIds :
        \A i, j \in DOMAIN calls[s] :
            (i < j /\ calls[s][i].op = "write") => calls[s][j].op \notin {"status", "json"}

(***************************************************************************)
(* C15.  No record is synthesized or written while the sink is at          *)
(* capacity, that is while its most recent write returned the              *)
(* backpressure signal and no drain has been delivered since; the write    *)
(* that reported capacity may be the prologue write.                       *)
(***************************************************************************)
\* the latest write is the prologue's when no record has been generated,
\* else the record write whose answer `ok` holds
AtCapacity(s) == Started(s) /\ needDrain[s] /\ (generated[s] = 0 \/ ~ok[s])

C15_PacedFromFirstByte ==
    [][\A s \in SessionIds :
          AtCapacity(s) =>
              /\ generated'[s] = generated[s]
              /\ RecordEntries(calls'[s]) = RecordEntries(calls[s])
      ]_vars

(***************************************************************************)
(* C16.  Every value generateRecord stores in a record is a scalar: a      *)
(* string, a number or a boolean, for every schema over the eight types    *)
(* and every field name, those matching the date/dob pattern included.     *)
(***************************************************************************)
C16_ScalarValues ==
    \A s \in SessionIds :
        generated[s] > 0 =>
            \A i \in DOMAIN lastRecord[s] :
                lastRecord[s][i].value.kind \in {"string", "number", "boolean"}

(***************************************************************************)
(* C17.  The three encoders are one flow-control machine: given the same   *)
(* target record count, the same answers to their writes and the same      *)
(* drain signals, streamCSV, streamJSON and streamXML have equal record    *)
(* counters, are suspended in the same steps, ask for flushes at the same  *)
(* steps and close the sink at the same step.  It is stated against one    *)
(* machine, FlowNext, that does not look at the format and is a function   *)
(* of the flow-control state and the input (the kind of step, fixed by     *)
(* the state, and the sink's answer): every step any of the three          *)
(* encoders takes is the step FlowNext takes on that input, so encoders    *)
(* given the same inputs go through the same flow-control states.          *)
(***************************************************************************)
\* the flow-control state of a session; whether the sink owes a 'drain'
\* is part of it only until the sink is closed
Control(s) ==
    [ pc        |-> pc[s],
      sent      |-> sentRecords[s],
      ok        |-> ok[s],
      listeners |-> listeners[s],
      owed      |-> needDrain[s] /\ ~Ended(s),
      written   |-> NumRecords(calls[s]),
      flushes   |-> NumFlushes(calls[s]),
      closed    |-> Ended(s),
      target    |-> recordCount[s],
      flushable |-> hasFlush[s] ]

FlowInputs == [kind : {"enter", "write", "exit", "drain"}, answer : BOOLEAN]

FlowEnabled(c, in) ==
    CASE in.kind = "enter" -> c.pc = "call"
      [] in.kind = "write" -> c.pc = "generate" /\ c.sent < c.target /\ c.ok
      [] in.kind = "exit"  -> c.pc = "generate" /\ ~(c.sent < c.target /\ c.ok) /\ in.answer
      [] in.kind = "drain" -> c.pc = "idle" /\ c.owed /\ in.answer

FlowNext(c, in) ==
    CASE in.kind = "enter" ->
            [c EXCEPT !.pc = "generate", !.sent = 0, !.ok = TRUE,
                      !.owed = @ \/ ~in.answer]
      [] in.kind = "write" ->
            [c EXCEPT !.sent = @ + 1, !.written = @ + 1, !.ok = in.answer,
                      !.owed = @ \/ ~in.answer,
                      !.flushes = IF c.flushable /\ (c.sent + 1) % 1000 = 0
                                  THEN @ + 1 ELSE @]
      [] in.kind = "exit" ->
            IF c.sent < c.target
            THEN [c EXCEPT !.pc = "idle", !.listeners = @ + 1]
            ELSE [c EXCEPT !.pc = "idle", !.closed = TRUE, !.owed = FALSE]
      [] in.kind = "drain" ->
            IF c.listeners > 0
            THEN [c EXCEPT !.owed = FALSE, !.listeners = @ - 1, !.ok = TRUE,
                           !.pc = "generate"]
            ELSE [c EXCEPT !.owed = FALSE]

C17_SameFlowControl ==
    [][\A s \in SessionIds :
          pc[s] \in {"call", "generate", "idle"} =>
              \/ Control(s)' = Control(s)
              \/ \E in \in FlowInputs :
                    /\ FlowEnabled(Control(s), in)
                    /\ Control(s)' = FlowNext(Control(s), in)
      ]_vars

\* an xml session that was parked, resumed and closed after three flushes
C17_Witness ==
    \E s \in SessionIds :
        /\ fileType[s] = "xml"
        /\ Done(s)
        /\ resumed[s]
        /\ NumFlushes(calls[s]) = 3

(***************************************************************************)
(* C18.  Two sessions running at once on two sinks, interleaved in any     *)
(* order, do not affect each other: a step of one session changes nothing  *)
(* of the other, a session's counter counts its own record writes only,    *)
(* each sink gets only its own session's prologue, records and epilogue,   *)
(* and each session ends with exactly its own target count written.        *)
(***************************************************************************)
SessionState(s) ==
    << pc[s], fileType[s], properties[s], recordCount[s], sentRecords[s], generated[s],
       ok[s], listeners[s], needDrain[s], hasFlush[s], calls[s], lastRecord[s] >>

\* the record chunks a session can write
OwnRecordTexts(s) ==
    IF fileType[s] = "csv"
    THEN {csvLine(properties[s], r) : r \in generateRecord(properties[s])}
    ELSE {jsonStringify(r) \o sep : r \in generateRecord(properties[s]), sep \in {<<>>, <<",">>}}

OwnPrologue(s) == IF fileType[s] = "csv" THEN csvHeaders(properties[s]) ELSE <<"[">>

OwnOutput(s) ==
    LET w == Wire(calls[s])
    IN  /\ NumRecords(calls[s]) = sentRecords[s]
        /\ InOrder(calls[s], sentRecords[s])
        /\ \A i \in DOMAIN w :
              /\ w[i].part = "prologue" => w[i].text = OwnPrologue(s)
              /\ w[i].part = "record" => w[i].text \in OwnRecordTexts(s)
              /\ w[i].part = "epilogue" => <<w[i].text>> = EpilogueOf(fileType[s])
        /\ Done(s) => NumRecords(calls[s]) = recordCount[s]

C18_SessionsIndependent ==
    /\ [](\A s \in PairIds : OwnOutput(s))
    /\ [][\E s \in PairIds :
             \A t \in PairIds \ {s} : SessionState(t)' = SessionState(t)
         ]_vars

\* both sessions were parked and resumed, and both have ended
C18_Witness ==
    /\ DOMAIN pc = PairIds
    /\ \A s \in PairIds : Done(s) /\ resumed[s] /\ recordCount[s] = 2
    /\ fileType[1] = "csv"
    /\ fileType[2] = "json"

(***************************************************************************)
(* C19.  A session has at most one 'drain' listener on its sink, and has   *)
(* one exactly while it is suspended, that is parked after a record write  *)
(* reported capacity with records remaining.  The listener is registered   *)
(* by the run of generate that saw the refused write, it is removed when   *)
(* it fires, a 'drain' delivered while none is registered changes nothing  *)
(* of the session, and none is left once the sink is closed.               *)
(***************************************************************************)
ParkedByBackpressure(s) ==
    /\ pc[s] = "idle"
    /\ ~Ended(s)
    /\ ~ok[s]
    /\ sentRecords[s] < recordCount[s]

C19_OneDrainListener ==
    /\ [](\A s \in SessionIds :
             /\ listeners[s] \in {0, 1}
             /\ listeners[s] = 1 <=> ParkedByBackpressure(s)
             /\ Ended(s) => listeners[s] = 0)
    /\ [][\A s \in SessionIds :
             /\ listeners'[s] > listeners[s] =>
                   /\ pc[s] = "generate"
                   /\ Backpressured(s)
                   /\ pc'[s] = "idle"
                   /\ calls'[s] = calls[s]
             /\ listeners'[s] < listeners[s] => DrainDelivered(s)
             /\ (DrainDelivered(s) /\ listeners[s] > 0) => listeners'[s] = listeners[s] - 1
             /\ (DrainDelivered(s) /\ listeners[s] = 0) =>
                   /\ pc'[s] = pc[s]
                   /\ ok'[s] = ok[s]
                   /\ sentRecords'[s] = sentRecords[s]
                   /\ generated'[s] = generated[s]
                   /\ listeners'[s] = 0
                   /\ calls'[s] = calls[s]
         ]_vars

\* a session parked for the second time: its first listener has fired
C19_Witness ==
    \E s \in SessionIds :
        /\ resumed[s]
        /\ listeners[s] = 1
        /\ ParkedByBackpressure(s)
        /\ fileType[s] = "json"

(***************************************************************************)
(* C20.  Whatever the backpressure and drain signals, those arriving after *)
(* completion included, a session closes its sink at most once and issues  *)
(* no write and no flush after closing it; the epilogue (']' or            *)
(* '</records>', none for csv) is written at most once, and only as the    *)
(* last write before the close.                                            *)
(***************************************************************************)
C20_CloseOnce ==
    /\ [](\A s \in SessionIds :
             LET log == calls[s]
             IN  /\ Cardinality({i \in DOMAIN log : log[i].op = "end"}) <= 1
                 /\ \A i \in DOMAIN log : log[i].op = "end" => i = Len(log)
                 /\ Cardinality({i \in DOMAIN log : log[i].part = "epilogue"}) <= 1
                 /\ \A i \in DOMAIN log :
                       log[i].part = "epilogue" =>
                           /\ fileType[s] # "csv"
                           /\ <<log[i].text>> = EpilogueOf(fileType[s])
                           /\ i = Len(log) - 1
                           /\ log[i + 1].op = "end")
    /\ [][\A s \in SessionIds : Ended(s) => calls'[s] = calls[s]]_vars

\* the last record write was refused, the session closed the sink all the
\* same, and the 'drain' that followed has been delivered
C20_Witness ==
    \E s \in SessionIds :
        /\ Done(s)
        /\ fileType[s] = "xml"
        /\ sentRecords[s] > 0
        /\ ~ok[s]
        /\ ~needDrain[s]

====
